---- MODULE Spec2Model ----
(***************************************************************************)
(* OAuth token lifecycle of the mail relay service.                        *)
(*                                                                         *)
(* The state is the shared OAuthManager (its in-memory credential), the    *)
(* token file, the provider-side token counter, the clock, and one         *)
(* position per request handler / background task that calls the manager. *)
(* get_credentials() and revoke_token() are modelled step by step (load,   *)
(* validity check, refresh, save, interactive flow, revoke request, file   *)
(* removal); the provider and the file system answer nondeterministically. *)
(* The callers are the handlers of send_email.py: direct calls             *)
(* (auth_status, revoke_auth), force_refresh, and the send tasks that      *)
(* send_emails adds, one per recipient.                                    *)
(*                                                                         *)
(* Spec runs one call at a time, as the event loop does for the            *)
(* `async def` handlers and tasks of send_email.py, which contain no       *)
(* await. SpecConcurrent lets the callers' steps interleave: the manager   *)
(* itself holds no lock, and it is a module-level object any thread can    *)
(* call.                                                                   *)
(*                                                                         *)
(* One tick of the clock is a period on the scale of a token lifetime; a   *)
(* call's own duration is negligible against it, so the clock advances     *)
(* only between calls.                                                     *)
(***************************************************************************)
EXTENDS Integers, Sequences, FiniteSets

(* ---------------------------------------------------------------- bounds *)

NProcs == 2

MaxOps == 3

MaxTime == 2

MaxTok == 4

Lifetime == 1

NRecip == 2

Procs == 1..NProcs

(* The recipients of the /send-emails submission, in the order of the      *)
(* request.                                                                *)
Recipients == 1..NRecip

(* Who called get_credentials(): a handler or script directly, the         *)
(* force_refresh handler, or the send task of recipient r (r itself).      *)
Direct == 0

Force == -1

(* ----------------------------------------------------------- credentials *)

NoToken == 0

NoExpiry == -1

(* Granted scopes: none, the scope this service asks for, or other scopes  *)
(* left in a token file that was written for another purpose.              *)
NoScopes == 0

SCOPES == 1

OtherScopes == 2

NoneCred == [some |-> FALSE, token |-> NoToken, refresh_token |-> FALSE, expiry |-> NoExpiry, scopes |-> NoScopes]

Credentials(t, r, e) == [some |-> TRUE, token |-> t, refresh_token |-> r, expiry |-> e, scopes |-> SCOPES]

expired(c, t) == c.expiry # NoExpiry /\ t >= c.expiry

valid(c, t) == c.token # NoToken /\ ~expired(c, t)

(* The token file: absent, unparseable, present but not openable for       *)
(* reading, or the serialised credential.                                  *)
Absent == [kind |-> "absent", token |-> NoToken, refresh_token |-> FALSE, expiry |-> NoExpiry, scopes |-> NoScopes]

Malformed == [kind |-> "malformed", token |-> NoToken, refresh_token |-> FALSE, expiry |-> NoExpiry, scopes |-> NoScopes]

Unreadable == [kind |-> "unreadable", token |-> NoToken, refresh_token |-> FALSE, expiry |-> NoExpiry, scopes |-> NoScopes]

(* A serialisation that leaves the access token out.                       *)
to_json_StripToken(c) ==
    [kind |-> "json", token |-> NoToken, refresh_token |-> c.refresh_token, expiry |-> c.expiry,
     scopes |-> c.scopes]

(* A serialisation that leaves the scopes out.                             *)
to_json_NoScopes(c) ==
    [kind |-> "json", token |-> c.token, refresh_token |-> c.refresh_token, expiry |-> c.expiry,
     scopes |-> NoScopes]

to_json(c) ==
    [kind |-> "json", token |-> c.token, refresh_token |-> c.refresh_token, expiry |-> c.expiry,
     scopes |-> c.scopes]

from_authorized_user_info(f) ==
    [Credentials(f.token, f.refresh_token, f.expiry) EXCEPT !.scopes = f.scopes]

InitStores ==
    {Absent, Malformed, Unreadable} \cup
    {to_json(Credentials(1, r, e)) : r \in BOOLEAN, e \in {0, Lifetime}} \cup
    {to_json(Credentials(1, TRUE, NoExpiry)), to_json(Credentials(NoToken, TRUE, NoExpiry)),
     to_json([Credentials(1, TRUE, 0) EXCEPT !.scopes = OtherScopes])}

(* -------------------------------------------------------- return values *)

RetNone == [kind |-> "none", cred |-> NoneCred, exc |-> "", val |-> FALSE]

RetCred(c) == [kind |-> "cred", cred |-> c, exc |-> "", val |-> FALSE]

RetExc(e) == [kind |-> "exc", cred |-> NoneCred, exc |-> e, val |-> FALSE]

RetBool(b) == [kind |-> "bool", cred |-> NoneCred, exc |-> "", val |-> b]

NoPrev == [op |-> "none", ret |-> RetNone]

VARIABLES
    now,        \* the clock
    store,      \* the token file
    mem,        \* OAuthManager.credentials
    nextTok,    \* the next access token the provider mints
    pc,         \* each handler's position
    op,         \* the operation of each handler's current or last call
    ret,        \* what each handler's last call returned or raised
    log,        \* provider / file-system events of the current or last call
    cons,       \* the credential the call's validity check looked at
    pre,        \* the token file when the call began
    preMem,     \* OAuthManager.credentials when the call began (serial)
    ctx,        \* who made each handler's current or last call
    submitted,  \* recipients whose send task has been added (0: no submission yet)
    started,    \* recipients whose send task has begun
    result,     \* what each recipient's send task returned
    revoked,    \* access tokens for which revoke_token() has returned True
    prev,       \* the call that returned immediately before this one began (serial)
    conc,       \* the handlers that were loading the token file together with this call
    ops,        \* calls begun so far
    just,       \* the handler whose call returned in the last step (0: none)
    serial      \* whether calls run one at a time (the event loop) or interleave

vars == <<now, store, mem, nextTok, pc, op, ret, log, cons, pre, preMem, ctx,
          submitted, started, result, revoked, prev, conc, ops, just, serial>>

Start ==
    /\ now = 0
    /\ store \in InitStores
    /\ mem = NoneCred
    /\ nextTok = 2
    /\ pc = [p \in Procs |-> "idle"]
    /\ op = [p \in Procs |-> "none"]
    /\ ret = [p \in Procs |-> RetNone]
    /\ log = [p \in Procs |-> <<>>]
    /\ cons = [p \in Procs |-> NoneCred]
    /\ pre = [p \in Procs |-> Absent]
    /\ preMem = [p \in Procs |-> NoneCred]
    /\ ctx = [p \in Procs |-> Direct]
    /\ submitted = 0
    /\ started = 0
    /\ result = [r \in Recipients |-> "none"]
    /\ revoked = {}
    /\ prev = [p \in Procs |-> NoPrev]
    /\ conc = [p \in Procs |-> {}]
    /\ ops = 0
    /\ just = 0

Init == Start /\ serial = TRUE

InitConcurrent == Start /\ serial = FALSE

(* ------------------------------------------------------- call bookkeeping *)

(* A get_credentials() call that has begun and not yet gone past loading.  *)
Loading(q) == pc[q] = "gc_check"

(* The history of a call is kept until the next call begins or the clock   *)
(* ticks: f with p's entry set to v and every finished call's entry reset. *)
Fresh(f, p, v, d) ==
    [q \in Procs |-> IF q = p THEN v ELSE IF pc[q] = "idle" THEN d ELSE f[q]]

(* Where a caller in context x goes on when its manager call is over: a    *)
(* send task has its message still to build and send.                      *)
After(x) == IF x \in Recipients THEN "st_send" ELSE "idle"

(* Handler p, in context x, enters manager operation o while the in-memory *)
(* credential is m; l is where the operation stands after its first step.  *)
(* Idle handlers are interchangeable: a new call is taken by the lowest.   *)
Enter(p, o, c, l, r, m, x) ==
    /\ pc[p] = "idle"
    /\ \A q \in Procs : q < p => pc[q] # "idle"
    /\ serial => \A q \in Procs : pc[q] = "idle"
    /\ ops' = ops + 1
    /\ op' = Fresh(op, p, o, "none")
    /\ pre' = Fresh(pre, p, store, Absent)
    /\ preMem' = Fresh(preMem, p, IF serial THEN m ELSE NoneCred, NoneCred)
    /\ ctx' = Fresh(ctx, p, x, Direct)
    /\ log' = Fresh(log, p, <<>>, <<>>)
    /\ cons' = Fresh(cons, p, c, NoneCred)
    /\ ret' = Fresh(ret, p, r, RetNone)
    /\ pc' = [pc EXCEPT ![p] = l]
    /\ just' = IF l = After(x) THEN p ELSE 0
    /\ prev' = [q \in Procs |->
                  IF q = p /\ just # 0 /\ serial
                  THEN [op |-> op[just], ret |-> ret[just]] ELSE NoPrev]
    /\ conc' = [q \in Procs |->
                  IF q = p THEN (IF o = "get" THEN {y \in Procs \ {p} : Loading(y)} ELSE {})
                  ELSE IF pc[q] = "idle" THEN {}
                  ELSE IF o = "get" /\ Loading(q) THEN conc[q] \cup {p}
                  ELSE conc[q] \ {p}]

(* A call made directly on the manager; the model follows MaxOps of them.  *)
Begin(p, o, c, l, r) ==
    /\ ops < MaxOps
    /\ Enter(p, o, c, l, r, mem, Direct)
    /\ UNCHANGED <<submitted, started, result>>

During(p) ==
    /\ prev' = [q \in Procs |-> IF q = p THEN prev[q] ELSE NoPrev]
    /\ UNCHANGED <<op, pre, preMem, ctx, submitted, started, result, conc, ops, serial>>

Mid(p) ==
    /\ During(p)
    /\ UNCHANGED revoked

Goto(p, l) ==
    /\ pc' = [pc EXCEPT ![p] = l]
    /\ ret' = [ret EXCEPT ![p] = RetNone]
    /\ just' = 0

Return(p, r) ==
    /\ pc' = [pc EXCEPT ![p] = After(ctx[p])]
    /\ ret' = [ret EXCEPT ![p] = r]
    /\ just' = p

Logged(p, e) == log' = [log EXCEPT ![p] = Append(@, e)]

(* --------------------------------------------------------- OAuthManager *)

(* _save_credentials: the file is written only for a valid credential.    *)
Saves(c, t) == c.some /\ valid(c, t)

save_credentials(c, s, t) == IF Saves(c, t) THEN to_json(c) ELSE s

(* get_credentials, lines 25-28: open() fails with an OSError, which the    *)
(* handler for ValueError and KeyError does not take.                      *)
LoadRaises(s) == s.kind = "unreadable"

(* get_credentials, lines 23-30: load the token file when it exists.       *)
LoadCredentials(s, c) ==
    IF s.kind = "absent" THEN c
    ELSE IF s.kind = "malformed" THEN NoneCred
    ELSE from_authorized_user_info(s)

(* __init__, line 19: the buffer, in seconds.                              *)
token_expiry_buffer == 300

(* One tick of the clock, in seconds: the length of the buffer.            *)
TickSeconds == 300

(* _is_token_expired_or_expiring_soon, lines 39-46; no code calls it.      *)
is_token_expired_or_expiring_soon(c, t) ==
    IF ~c.some \/ c.expiry = NoExpiry THEN TRUE
    ELSE t * TickSeconds + token_expiry_buffer >= c.expiry * TickSeconds

(* The validity check with the buffer predicate in the place of valid.     *)
CheckBranch_ExpiringSoon(c, t) ==
    IF ~c.some \/ c.token = NoToken \/ is_token_expired_or_expiring_soon(c, t)
    THEN IF c.some /\ c.refresh_token THEN "refresh" ELSE "flow"
    ELSE "return"

(* Variants of the validity check, each a slip the claims must notice:     *)
(* the refresh branch dropped; the refresh token not looked at; the expiry *)
(* buffer consulted, so that a valid credential near expiry is refreshed.  *)
CheckBranch_NoRefresh(c, t) ==
    IF ~c.some \/ ~valid(c, t) THEN "flow" ELSE "return"

CheckBranch_AnyExpired(c, t) ==
    IF ~c.some \/ ~valid(c, t)
    THEN IF c.some /\ expired(c, t) THEN "refresh" ELSE "flow"
    ELSE "return"

CheckBranch_Buffered(c, t) ==
    IF ~c.some \/ ~valid(c, t + Lifetime)
    THEN IF c.some /\ expired(c, t + Lifetime) /\ c.refresh_token THEN "refresh" ELSE "flow"
    ELSE "return"

(* get_credentials, lines 32-37: reuse, refresh, or authorize.             *)
CheckBranch(c, t) ==
    IF ~c.some \/ ~valid(c, t)
    THEN IF c.some /\ expired(c, t) /\ c.refresh_token THEN "refresh" ELSE "flow"
    ELSE "return"

(* What credentials.refresh(Request()) can do on credential c.             *)
RefreshOutcomes(c, n) ==
    IF ~c.some THEN {"AttributeError"}
    ELSE IF ~c.refresh_token THEN {"RefreshError"}
    ELSE {"RefreshError", "TransportError"} \cup (IF n <= MaxTok THEN {"ok"} ELSE {})

Refreshed(c, n, t) == [c EXCEPT !.token = n, !.expiry = t + Lifetime]

(* _refresh_token, line 55: the only exception it handles.                 *)
RefreshCatches(e) == e = "RefreshError"

(* get_credentials, lines 21-30, entered by handler p in context x with m  *)
(* as the in-memory credential.                                            *)
get_credentials_load(p, x, m) ==
    /\ IF LoadRaises(store)
       THEN /\ Enter(p, "get", NoneCred, After(x), RetExc("OSError"), m, x)
            /\ mem' = m
       ELSE /\ Enter(p, "get", NoneCred, "gc_check", RetNone, m, x)
            /\ mem' = LoadCredentials(store, m)
    /\ UNCHANGED <<now, store, nextTok, revoked, serial>>

get_credentials(p) ==
    /\ ops < MaxOps
    /\ get_credentials_load(p, Direct, mem)
    /\ UNCHANGED <<submitted, started, result>>

get_credentials_check(p) ==
    /\ pc[p] = "gc_check"
    /\ cons' = [cons EXCEPT ![p] = mem]
    /\ IF CheckBranch(mem, now) = "return"
       THEN Return(p, RetCred(mem))
       ELSE Goto(p, IF CheckBranch(mem, now) = "refresh" THEN "rt_refresh" ELSE "of_flow")
    /\ Mid(p)
    /\ UNCHANGED <<now, store, mem, nextTok, log>>

refresh_token(p) ==
    /\ pc[p] = "rt_refresh"
    /\ \E o \in RefreshOutcomes(mem, nextTok) :
          /\ Logged(p, "refresh_" \o o)
          /\ IF o = "ok"
             THEN /\ mem' = Refreshed(mem, nextTok, now)
                  /\ nextTok' = nextTok + 1
                  /\ Goto(p, "rt_save")
             ELSE /\ UNCHANGED <<mem, nextTok>>
                  /\ IF RefreshCatches(o) THEN Goto(p, "of_flow") ELSE Return(p, RetExc(o))
    /\ Mid(p)
    /\ UNCHANGED <<now, store, cons>>

refresh_token_save(p) ==
    /\ pc[p] = "rt_save"
    /\ store' = save_credentials(mem, store, now)
    /\ IF Saves(mem, now) THEN Logged(p, "write") ELSE UNCHANGED log
    /\ Return(p, RetCred(mem))
    /\ Mid(p)
    /\ UNCHANGED <<now, mem, nextTok, cons>>

run_oauth_flow(p) ==
    /\ pc[p] = "of_flow"
    /\ \E o \in {"fail"} \cup (IF nextTok <= MaxTok THEN {"ok"} ELSE {}), r \in BOOLEAN :
          /\ Logged(p, "flow_" \o o)
          /\ IF o = "ok"
             THEN /\ mem' = Credentials(nextTok, r, now + Lifetime)
                  /\ nextTok' = nextTok + 1
                  /\ Goto(p, "of_save")
             ELSE /\ UNCHANGED <<mem, nextTok>>
                  /\ Return(p, RetExc("HTTPException"))
    /\ Mid(p)
    /\ UNCHANGED <<now, store, cons>>

run_oauth_flow_save(p) ==
    /\ pc[p] = "of_save"
    /\ store' = save_credentials(mem, store, now)
    /\ IF Saves(mem, now) THEN Logged(p, "write") ELSE UNCHANGED log
    /\ Return(p, RetCred(mem))
    /\ Mid(p)
    /\ UNCHANGED <<now, mem, nextTok, cons>>

(* A narrower handler, as _refresh_token has.                              *)
RevokeCatches_RefreshErrorOnly(e) == e = "RefreshError"

(* revoke_token, lines 109-110: `except Exception` handles every failure.  *)
RevokeCatches(e) == TRUE

(* revoke_token, line 94: only the in-memory credential is consulted.      *)
RevokeProceeds(c, s, t) == c.some /\ valid(c, t)

(* revoke_token, line 104: the provider acknowledged.                      *)
Acknowledged(o) == o = "200"

Raised(p, e) == IF RevokeCatches(e) THEN Return(p, RetBool(FALSE)) ELSE Return(p, RetExc(e))

revoke_token(p) ==
    /\ IF RevokeProceeds(mem, store, now)
       THEN Begin(p, "revoke", mem, "rv_refresh", RetNone)
       ELSE Begin(p, "revoke", mem, "idle", RetBool(FALSE))
    /\ UNCHANGED <<now, store, mem, nextTok, revoked, serial>>

(* The refresh inside revoke_token followed by a save, as _refresh_token   *)
(* does.                                                                   *)
revoke_token_refresh_Saves(p) ==
    /\ pc[p] = "rv_refresh"
    /\ \E o \in RefreshOutcomes(mem, nextTok) :
          /\ Logged(p, "refresh_" \o o)
          /\ IF o = "ok"
             THEN /\ mem' = Refreshed(mem, nextTok, now)
                  /\ store' = save_credentials(mem', store, now)
                  /\ nextTok' = nextTok + 1
                  /\ Goto(p, "rv_post")
             ELSE /\ UNCHANGED <<mem, nextTok, store>>
                  /\ Raised(p, o)
    /\ Mid(p)
    /\ UNCHANGED <<now, cons>>

revoke_token_refresh(p) ==
    /\ pc[p] = "rv_refresh"
    /\ \E o \in RefreshOutcomes(mem, nextTok) :
          /\ Logged(p, "refresh_" \o o)
          /\ IF o = "ok"
             THEN /\ mem' = Refreshed(mem, nextTok, now)
                  /\ nextTok' = nextTok + 1
                  /\ Goto(p, "rv_post")
             ELSE /\ UNCHANGED <<mem, nextTok>>
                  /\ Raised(p, o)
    /\ Mid(p)
    /\ UNCHANGED <<now, store, cons>>

revoke_token_post(p) ==
    /\ pc[p] = "rv_post"
    /\ \E o \in {"200", "400", "TransportError"} :
          /\ Logged(p, "post_" \o o)
          /\ IF o = "TransportError" THEN Raised(p, o)
             ELSE IF Acknowledged(o) THEN Goto(p, "rv_remove")
             ELSE Return(p, RetBool(FALSE))
    /\ Mid(p)
    /\ UNCHANGED <<now, store, mem, nextTok, cons>>

revoke_token_remove(p) ==
    /\ pc[p] = "rv_remove"
    /\ IF store.kind = "absent"
       THEN /\ UNCHANGED <<store, log>>
            /\ Return(p, RetBool(TRUE))
       ELSE \E o \in {"ok", "OSError"} :
            /\ Logged(p, "remove_" \o o)
            /\ IF o = "ok"
               THEN store' = Absent /\ Return(p, RetBool(TRUE))
               ELSE UNCHANGED store /\ Raised(p, o)
    /\ revoked' = IF ret'[p] = RetBool(TRUE) THEN revoked \cup {mem.token} ELSE revoked
    /\ During(p)
    /\ UNCHANGED <<now, mem, nextTok, cons>>

(* -------------------------------------------------------- send_email.py *)

(* A narrower handler, as send_message has.                                *)
TaskCatches_HttpErrorOnly(e) == e = "HttpError"

(* send_email_task, line 151: `except Exception` handles every failure of  *)
(* the task, the manager's included.                                       *)
TaskCatches(e) == TRUE

(* What building the service, composing the message and sending it can do *)
(* (lines 136-149).                                                        *)
SendOutcomes == {"sent", "HttpError", "Exception"}

(* send_message, line 111, handles HttpError itself and returns None; the  *)
(* task then returns True (line 150).                                      *)
TaskResult(o) ==
    IF o \in {"sent", "HttpError"} THEN "True"
    ELSE IF TaskCatches(o) THEN "False"
    ELSE "raised"

(* force_refresh, lines 210-212: the in-memory credential, if there is     *)
(* one, is given the current time as its expiry.                           *)
Expire(c, t) == IF c.some THEN [c EXCEPT !.expiry = t] ELSE c

(* force_refresh, lines 208-225: expire the in-memory credential, then     *)
(* call get_credentials(); whatever that raises is reported in the         *)
(* response.                                                               *)
force_refresh(p) ==
    /\ ops < MaxOps
    /\ get_credentials_load(p, Force, Expire(mem, now))
    /\ UNCHANGED <<submitted, started, result>>

(* send_emails: one send task per recipient is added, in request order     *)
(* (lines 160-161); n is the number of recipients in the request.          *)
send_emails(n) ==
    /\ submitted = 0
    /\ serial => \A q \in Procs : pc[q] = "idle"
    /\ submitted' = n
    /\ UNCHANGED <<now, store, mem, nextTok, pc, op, ret, log, cons, pre, preMem, ctx,
                   started, result, revoked, prev, conc, ops, just, serial>>

(* send_email_task, line 135: the next recipient's task begins by asking   *)
(* the manager for a credential. Where calls interleave, the task's call   *)
(* is one of the MaxOps calls followed; on the event loop every task added *)
(* is followed.                                                            *)
send_email_task(p) ==
    /\ started < submitted
    /\ serial \/ ops < MaxOps
    /\ started' = started + 1
    /\ get_credentials_load(p, started + 1, mem)
    /\ UNCHANGED <<submitted, result>>

(* send_email_task, lines 136-153: the rest of the task. The tasks of a    *)
(* submission run one after another; an exception that left a task would   *)
(* end the run, and the recipients after it would never be processed.      *)
(* The history of the task's manager call ends with the task.              *)
send_email_task_send(p) ==
    /\ pc[p] = "st_send"
    /\ \E o \in (IF ret[p].kind = "exc" THEN {ret[p].exc} ELSE SendOutcomes) :
          /\ result' = [r \in Recipients |->
                          IF r = ctx[p] THEN TaskResult(o)
                          ELSE IF TaskResult(o) = "raised" /\ r > started /\ r <= submitted
                          THEN "dropped"
                          ELSE result[r]]
          /\ started' = IF TaskResult(o) = "raised" THEN submitted ELSE started
    /\ pc' = [pc EXCEPT ![p] = "idle"]
    /\ just' = 0
    /\ op' = [op EXCEPT ![p] = "none"]
    /\ ret' = [ret EXCEPT ![p] = RetNone]
    /\ log' = [log EXCEPT ![p] = <<>>]
    /\ cons' = [cons EXCEPT ![p] = NoneCred]
    /\ pre' = [pre EXCEPT ![p] = Absent]
    /\ preMem' = [preMem EXCEPT ![p] = NoneCred]
    /\ ctx' = [ctx EXCEPT ![p] = Direct]
    /\ conc' = [q \in Procs |-> IF q = p THEN {} ELSE conc[q]]
    /\ prev' = [q \in Procs |-> NoPrev]
    /\ UNCHANGED <<now, store, mem, nextTok, submitted, revoked, ops, serial>>

(* ------------------------------------------------------------ the clock *)

Tick ==
    /\ \A p \in Procs : pc[p] = "idle"
    /\ now < MaxTime
    /\ now' = now + 1
    /\ just' = 0
    /\ op' = [p \in Procs |-> "none"]
    /\ ret' = [p \in Procs |-> RetNone]
    /\ log' = [p \in Procs |-> <<>>]
    /\ cons' = [p \in Procs |-> NoneCred]
    /\ pre' = [p \in Procs |-> Absent]
    /\ preMem' = [p \in Procs |-> NoneCred]
    /\ prev' = [p \in Procs |-> NoPrev]
    /\ conc' = [p \in Procs |-> {}]
    /\ UNCHANGED <<store, mem, nextTok, pc, ctx, submitted, started, result, revoked, ops, serial>>

(* ------------------------------------------------------- specifications *)

Step(p) ==
    \/ get_credentials(p)
    \/ get_credentials_check(p)
    \/ refresh_token(p)
    \/ refresh_token_save(p)
    \/ run_oauth_flow(p)
    \/ run_oauth_flow_save(p)
    \/ revoke_token(p)
    \/ revoke_token_refresh(p)
    \/ revoke_token_post(p)
    \/ revoke_token_remove(p)
    \/ force_refresh(p)
    \/ send_email_task(p)
    \/ send_email_task_send(p)

Next == (\E p \in Procs : Step(p)) \/ (\E n \in Recipients : send_emails(n)) \/ Tick

(* One call at a time: a call begins only while every handler is idle.     *)
Spec == Init /\ [][Next]_vars

(* Calls overlap and their steps interleave.                               *)
SpecConcurrent == InitConcurrent /\ [][Next]_vars

(* The event loop keeps running what it has to run: a call that has begun  *)
(* goes on, every call to the provider, the browser or the file system     *)
(* ends with an answer or an error, and a send task that was added is run  *)
(* once the loop is free.                                                  *)
Fairness == WF_vars(\E p \in Procs : Step(p))

SpecFair == Spec /\ Fairness

(* ---------------------------------------------------- reading the history *)

IsRefresh(e) == e \in {"refresh_ok", "refresh_RefreshError", "refresh_TransportError", "refresh_AttributeError"}

IsFlow(e) == e \in {"flow_ok", "flow_fail"}

IsPost(e) == e \in {"post_200", "post_400", "post_TransportError"}

Has(l, e) == \E i \in 1..Len(l) : l[i] = e

RefreshCalls(l) == Cardinality({i \in 1..Len(l) : IsRefresh(l[i])})

RECURSIVE TotalRefresh(_)
TotalRefresh(n) == IF n = 0 THEN 0 ELSE RefreshCalls(log[n]) + TotalRefresh(n - 1)

Returned(p, o) == just = p /\ op[p] = o

ExpiredRefreshable(c, t) == expired(c, t) /\ c.refresh_token

ExpiredUnrefreshable(c, t) == expired(c, t) /\ ~c.refresh_token

StoredValid(s, t) == s.kind = "json" /\ valid(from_authorized_user_info(s), t)

(* ----------------------------------------------------------------- claims *)

(* C1: get_credentials() either returns a credential that is valid at the  *)
(* moment of return or fails with the authentication failure (the          *)
(* HTTPException of _run_oauth_flow); it never returns None or an invalid  *)
(* credential and never fails with another error.                          *)
C1_ValidOrAuthenticationFailure ==
    \A p \in Procs :
        Returned(p, "get") =>
            \/ ret[p].kind = "cred" /\ ret[p].cred.some /\ valid(ret[p].cred, now)
            \/ ret[p] = RetExc("HTTPException")

(* C2: when every caller invokes get_credentials() simultaneously (each    *)
(* has begun before any has gone past loading the token file) while the    *)
(* stored credential is expired and has a refresh token, exactly one       *)
(* refresh call is made in total: never more than one, and one by the time *)
(* all callers have returned.                                              *)
Simultaneous ==
    \A p \in Procs :
        /\ op[p] = "get"
        /\ conc[p] = Procs \ {p}
        /\ pre[p].kind = "json"
        /\ ExpiredRefreshable(from_authorized_user_info(pre[p]), now)

C2_ExactlyOneRefresh ==
    Simultaneous =>
        /\ TotalRefresh(NProcs) <= 1
        /\ (\A p \in Procs : pc[p] = "idle") => TotalRefresh(NProcs) = 1

(* C3: in a get_credentials() call whose credential under consideration is *)
(* expired and has a refresh token, the refresh call comes first, and the  *)
(* interactive flow is started only after that refresh raised RefreshError.*)
C3_RefreshBeforeFlow ==
    \A p \in Procs :
        (op[p] = "get" /\ cons[p].some /\ ExpiredRefreshable(cons[p], now)) =>
            /\ \/ pc[p] = "rt_refresh" /\ log[p] = <<>>
               \/ Len(log[p]) >= 1 /\ IsRefresh(log[p][1])
            /\ \A i \in 1..Len(log[p]) :
                  IsFlow(log[p][i]) => i = 2 /\ log[p][1] = "refresh_RefreshError"
            /\ pc[p] = "of_flow" => log[p] = <<"refresh_RefreshError">>

C3_Witness ==
    \E p \in Procs :
        /\ Returned(p, "get")
        /\ ExpiredRefreshable(cons[p], now)
        /\ Len(log[p]) >= 2
        /\ log[p][1] = "refresh_RefreshError"
        /\ log[p][2] = "flow_ok"

(* C4: in a get_credentials() call whose credential under consideration is *)
(* expired and has no refresh token, the interactive flow is started and   *)
(* no refresh call is made during the call.                                *)
C4_UnrefreshableGoesToFlow ==
    \A p \in Procs :
        (op[p] = "get" /\ cons[p].some /\ ExpiredUnrefreshable(cons[p], now)) =>
            /\ \A i \in 1..Len(log[p]) : ~IsRefresh(log[p][i])
            /\ \/ pc[p] = "of_flow" /\ log[p] = <<>>
               \/ Len(log[p]) >= 1 /\ IsFlow(log[p][1])

C4_Witness ==
    \E p \in Procs :
        /\ Returned(p, "get")
        /\ cons[p].some
        /\ ExpiredUnrefreshable(cons[p], now)
        /\ Has(log[p], "flow_ok")

(* C5: when get_credentials() has returned a credential that is still      *)
(* valid and is called again immediately, with nothing in between (so not  *)
(* through force_refresh, which first expires the in-memory credential),   *)
(* the second call makes no refresh call, runs no interactive flow, writes *)
(* nothing to the token file, and returns the same credential.             *)
C5_Idempotent ==
    \A p \in Procs :
        ( /\ Returned(p, "get")
          /\ ctx[p] # Force
          /\ prev[p].op = "get"
          /\ prev[p].ret.kind = "cred"
          /\ prev[p].ret.cred.some
          /\ valid(prev[p].ret.cred, now) ) =>
            /\ log[p] = <<>>
            /\ ret[p] = prev[p].ret
            /\ store = pre[p]

C5_Witness ==
    \E p \in Procs :
        /\ Returned(p, "get")
        /\ ctx[p] # Force
        /\ prev[p].op = "get"
        /\ prev[p].ret.kind = "cred"
        /\ valid(prev[p].ret.cred, now)
        /\ ret[p] = prev[p].ret
        /\ pre[p].kind = "json"

(* C6: whenever get_credentials() is called while the token file is        *)
(* absent, after any earlier operations, the call runs the interactive     *)
(* flow, and if the flow succeeds a record is in the store on return.      *)
C6_AbsentStoreRunsFlow ==
    \A p \in Procs :
        (Returned(p, "get") /\ pre[p].kind = "absent") =>
            /\ \E i \in 1..Len(log[p]) : IsFlow(log[p][i])
            /\ (Has(log[p], "flow_ok") /\ ret[p].kind = "cred") => store.kind = "json"

(* C7: whenever revoke_token() returns True, the token file is absent and  *)
(* the manager's in-memory credential has been cleared.                    *)
C7_RevokeClearsState ==
    \A p \in Procs :
        (Returned(p, "revoke") /\ ret[p] = RetBool(TRUE)) =>
            /\ store.kind = "absent"
            /\ mem = NoneCred

(* C8: whenever a valid credential is in the token file, revoke_token()    *)
(* sends a revocation request to the provider, also when the in-memory     *)
(* credential has not been populated by an earlier get_credentials().      *)
C8_RevokeSendsRequest ==
    \A p \in Procs :
        (Returned(p, "revoke") /\ StoredValid(pre[p], now)) =>
            \E i \in 1..Len(log[p]) : IsPost(log[p][i])

(* C9: whenever revoke_token() is called while the token file is absent,   *)
(* it returns False and leaves the store as it was, whatever the in-memory *)
(* credential is.                                                          *)
C9_RevokeWithoutStore ==
    \A p \in Procs :
        (Returned(p, "revoke") /\ pre[p].kind = "absent") =>
            /\ ret[p] = RetBool(FALSE)
            /\ store = pre[p]

(* C10: revoke_token() never raises: a failing refresh, a failing or       *)
(* rejected revoke request and a failing file deletion each end the call   *)
(* with False.                                                             *)
RevokeFailed(l) ==
    \E i \in 1..Len(l) :
        l[i] \in {"refresh_RefreshError", "refresh_TransportError", "refresh_AttributeError",
                  "post_400", "post_TransportError", "remove_OSError"}

C10_RevokeNeverRaises ==
    \A p \in Procs :
        (op[p] = "revoke" /\ pc[p] = "idle") =>
            /\ ret[p].kind = "bool"
            /\ RevokeFailed(log[p]) => ret[p] = RetBool(FALSE)

C10_Witness ==
    \E p \in Procs :
        /\ Returned(p, "revoke")
        /\ log[p] = <<"refresh_ok", "post_200", "remove_OSError">>
        /\ ret[p] = RetBool(FALSE)

(* C11: when get_credentials() is called while the token file exists but   *)
(* is malformed or cannot be read, the call makes no refresh call, runs    *)
(* the interactive flow, and fails, if at all, only with the               *)
(* authentication failure of that flow: no parse or read error reaches the *)
(* caller.                                                                 *)
C11_BadFileGoesToFlow ==
    \A p \in Procs :
        (Returned(p, "get") /\ pre[p].kind \in {"malformed", "unreadable"}) =>
            /\ \A i \in 1..Len(log[p]) : ~IsRefresh(log[p][i])
            /\ \E i \in 1..Len(log[p]) : IsFlow(log[p][i])
            /\ ret[p].kind = "exc" => ret[p] = RetExc("HTTPException")

(* C12: when the interactive flow fails during get_credentials(), the call *)
(* fails with the authentication failure (HTTPException), and on return    *)
(* the in-memory credential and the token file are what they were when the *)
(* call began.                                                             *)
C12_FlowFailureChangesNothing ==
    \A p \in Procs :
        (Returned(p, "get") /\ Has(log[p], "flow_fail")) =>
            /\ ret[p] = RetExc("HTTPException")
            /\ mem = preMem[p]
            /\ store = pre[p]

(* C13: every recipient of a /send-emails submission eventually has its    *)
(* send task run to completion (the task returns True or False), whatever  *)
(* happened in the tasks of the other recipients: credential acquisition   *)
(* failures, message errors and send errors included.                      *)
C13_EveryRecipientProcessed ==
    (submitted > 0) ~> (\A r \in 1..submitted : result[r] \in {"True", "False"})

C13_Witness ==
    /\ submitted = NRecip
    /\ result[1] = "False"
    /\ result[NRecip] = "True"

(* C14: whenever force_refresh is called while the manager holds a         *)
(* credential with a refresh token, a refresh call to the provider is made *)
(* during that request.                                                    *)
C14_ForceRefreshRefreshes ==
    \A p \in Procs :
        ( /\ Returned(p, "get")
          /\ ctx[p] = Force
          /\ preMem[p].some
          /\ preMem[p].refresh_token ) =>
            \E i \in 1..Len(log[p]) : IsRefresh(log[p][i])

(* C15: whenever get_credentials() returns through a successful refresh,   *)
(* the token file holds the refreshed credential: on return the stored     *)
(* record equals the returned, in-memory credential in access token,       *)
(* refresh token, expiry and scopes.                                       *)
C15_RefreshIsPersisted ==
    \A p \in Procs :
        (Returned(p, "get") /\ Has(log[p], "refresh_ok") /\ ret[p].kind = "cred") =>
            /\ ret[p].cred = mem
            /\ store.kind = "json"
            /\ store.token = mem.token
            /\ store.refresh_token = mem.refresh_token
            /\ store.expiry = mem.expiry
            /\ store.scopes = mem.scopes

C15_Witness ==
    \E p \in Procs :
        /\ Returned(p, "get")
        /\ Has(log[p], "refresh_ok")
        /\ ret[p].kind = "cred"
        /\ ret[p].cred.token # pre[p].token
        /\ ret[p].cred.scopes = OtherScopes

(* C16: get_credentials() makes a refresh call only for a credential its   *)
(* validity check reports expired; a credential that is valid but within   *)
(* the expiry buffer (or for which the buffer predicate holds for any      *)
(* other reason) is returned as it is, with no refresh call, no            *)
(* interactive flow and no write to the token file.                        *)
C16_BufferNotConsulted ==
    \A p \in Procs :
        Returned(p, "get") =>
            /\ (\E i \in 1..Len(log[p]) : IsRefresh(log[p][i])) =>
                   cons[p].some /\ expired(cons[p], now)
            /\ ( /\ cons[p].some
                 /\ valid(cons[p], now)
                 /\ is_token_expired_or_expiring_soon(cons[p], now) ) =>
                   /\ log[p] = <<>>
                   /\ ret[p] = RetCred(cons[p])
                   /\ store = pre[p]

C16_Witness ==
    \E p \in Procs :
        /\ Returned(p, "get")
        /\ cons[p].some
        /\ cons[p].expiry > now
        /\ is_token_expired_or_expiring_soon(cons[p], now)
        /\ ret[p] = RetCred(cons[p])

(* C17: once revoke_token() has returned True for an access token, no      *)
(* later get_credentials() call returns a credential carrying that token.  *)
C17_RevokedTokenNotReturned ==
    \A p \in Procs :
        (Returned(p, "get") /\ ret[p].kind = "cred") => ret[p].cred.token \notin revoked

(* C18: every record the manager writes to the token file is valid at the  *)
(* moment it is written, and is written while the in-memory credential     *)
(* exists and is valid: no step of get_credentials(), of a refresh, of the *)
(* interactive flow or of revoke_token() puts an expired or empty          *)
(* credential into the file.                                               *)
C18_WritesOnlyValid ==
    [][(store' # store /\ store'.kind = "json") =>
          /\ valid(from_authorized_user_info(store'), now')
          /\ mem'.some
          /\ valid(mem', now')]_vars

C18_Witness ==
    \E p \in Procs :
        /\ Has(log[p], "write")
        /\ store.kind = "json"
        /\ store.token >= 2
        /\ store.expiry > now

(* C19: whenever revoke_token() returns False, the token file is what it   *)
(* was when the call began, neither removed nor rewritten, also when the   *)
(* refresh inside revoke_token() succeeded and changed the in-memory       *)
(* credential before the revoke request failed.                            *)
C19_FailedRevokeKeepsStore ==
    \A p \in Procs :
        (Returned(p, "revoke") /\ ret[p] = RetBool(FALSE)) => store = pre[p]

C19_Witness ==
    \E p \in Procs :
        /\ Returned(p, "revoke")
        /\ ret[p] = RetBool(FALSE)
        /\ log[p] = <<"refresh_ok", "post_400">>
        /\ store.kind = "json"
        /\ mem.token # store.token

====
